---- MODULE Spec2Model ----
(***************************************************************************)
(* A model of src/extract.py: the scan of pytest source files for case    *)
(* ids, automation script names and authors.                              *)
(*                                                                         *)
(* Source text is modelled at the level of the lexical units the regular  *)
(* expressions of extract.py tell apart.  A line is a sequence of tokens, *)
(* a file is a sequence of lines, and the file's text is its lines joined *)
(* by newline tokens.  Tokens:                                            *)
(*   [k |-> "pdec"]                   @pytest.mark.parametrize(           *)
(*   [k |-> "popen"]                  pytest.param(                       *)
(*   [k |-> "qid", id |-> i]          a quoted literal such as "c123456"  *)
(*   [k |-> "colon"]                  :                                   *)
(*   [k |-> "tq", q |-> "d" | "s"]    a triple quote, double or single    *)
(*   [k |-> "author", name, q]        @Author: Jane   (q: name in quotes) *)
(*   [k |-> "def", kw, test, id]      def test_foo_c123456(               *)
(*   [k |-> "text", id |-> i]         prose that spells a case id         *)
(*   [k |-> "word", w |-> s]          other code (w = "default" starts    *)
(*                                    with the letters def)               *)
(*   [k |-> "pad", w |-> n]           a comment n characters wide         *)
(*   [k |-> "nl"]                     the newline between two lines       *)
(* A case id is [up, fam, n]: the letter c (C when up), then the first n  *)
(* digits of digit string number fam; two digit strings differ in their   *)
(* first digit.                                                           *)
(***************************************************************************)
EXTENDS Integers, Sequences, FiniteSets, TLC

\* ------------------------------------------------------------------ bounds

\* Most chunks (lines, or runs of blank lines) a generated file is made of.
MaxChunks == 4

\* Most files in a generated file list of more than one file.
MaxFiles == 2

\* ------------------------------------------------------- program constants

\* extract_author_from_nearby_block: max_lines = 60
max_lines == 60

\* extract_dict_authors: text[start:start + 4000]
tail_chars == 4000

\* ------------------------------------------------------------------ tokens

NoId == [up |-> FALSE, fam |-> 0, n |-> 0]

Id(up, fam, n) == [up |-> up, fam |-> fam, n |-> n]

PDEC == [k |-> "pdec"]
POPEN == [k |-> "popen"]
COLON == [k |-> "colon"]
NL == [k |-> "nl"]
TQ == [k |-> "tq", q |-> "d"]
TQS == [k |-> "tq", q |-> "s"]
QID(i) == [k |-> "qid", id |-> i]
TEXT(i) == [k |-> "text", id |-> i]
AUTHOR(name) == [k |-> "author", name |-> name, q |-> FALSE]
AUTHORQ(name) == [k |-> "author", name |-> name, q |-> TRUE]
FDEF(test, i) == [k |-> "def", kw |-> "def", test |-> test, id |-> i]
FDEFUP(test, i) == [k |-> "def", kw |-> "DEF", test |-> test, id |-> i]
WORD(w) == [k |-> "word", w |-> w]
PAD(n) == [k |-> "pad", w |-> n]

Min(a, b) == IF a <= b THEN a ELSE b

\* The case id text a token spells, NoId when it spells none.
IdText(tok) ==
  IF tok.k \in {"qid", "text", "def"} THEN tok.id ELSE NoId

\* The characters a token takes, the one blank that separates it from the
\* next token of its line included.
Width(tok) ==
  CASE tok.k = "nl" -> 1
    [] tok.k = "tq" -> 4
    [] tok.k = "colon" -> 2
    [] tok.k = "qid" -> tok.id.n + 4
    [] tok.k = "text" -> tok.id.n + 2
    [] tok.k = "author" -> 10 + Len(tok.name) + (IF tok.q THEN 2 ELSE 0)
    [] tok.k = "pad" -> tok.w + 1
    [] tok.k = "word" -> 8
    [] tok.k = "def" -> 12 + tok.id.n
    [] OTHER -> 26

\* The text of lines lo..hi joined by newlines (halved, to keep the
\* evaluation shallow on long files).
RECURSIVE FlatRange(_, _, _)
FlatRange(ls, lo, hi) ==
  IF lo > hi THEN <<>>
  ELSE IF lo = hi THEN ls[lo]
  ELSE LET mid == (lo + hi) \div 2
       IN  FlatRange(ls, lo, mid) \o <<NL>> \o FlatRange(ls, mid + 1, hi)

\* The text of a file: its lines joined by newlines.
Flat(ls) == FlatRange(ls, 1, Len(ls))

\* The characters tokens lo..hi take.
RECURSIVE WidthRange(_, _, _)
WidthRange(toks, lo, hi) ==
  IF lo > hi THEN 0
  ELSE IF lo = hi THEN Width(toks[lo])
  ELSE LET mid == (lo + hi) \div 2
       IN  WidthRange(toks, lo, mid) + WidthRange(toks, mid + 1, hi)

\* The offset in toks of the first character of token i.
Pos(toks, i) == WidthRange(toks, 1, i - 1)

\* ---------------------------------------------------------------- patterns

\* c\d{6,7} between two quotes (key_pattern, param_caseid_pattern): the
\* literal is a case id when it has 6 or 7 digits, in either letter case.
CaseIdShape(i) == i # NoId /\ i.n >= 6 /\ i.n <= 7

\* Mutant of InlineSearch: the whole run of digits is taken (c\d{6,}).
InlineSearchWhole(i) ==
  IF i # NoId /\ i.n >= 6
  THEN [found |-> TRUE, id |-> i]
  ELSE [found |-> FALSE, id |-> NoId]

\* inline_caseid_pattern.search(func_name): the first c\d{6,7} in the name, a
\* longer run of digits matching on its first seven.
InlineSearch(i) ==
  IF i # NoId /\ i.n >= 6
  THEN [found |-> TRUE, id |-> [i EXCEPT !.n = Min(i.n, 7)]]
  ELSE [found |-> FALSE, id |-> NoId]

\* The first token after i that is not a newline (Len(toks) + 1 if none).
NextSolid(toks, i) ==
  LET later == {j \in (i + 1)..Len(toks) : toks[j].k # "nl"}
  IN  IF later = {} THEN Len(toks) + 1
      ELSE CHOOSE j \in later : \A h \in later : j <= h

\* key_pattern matches at token i: a quoted case id, then a colon, white
\* space (line ends too) allowed between them.
KeyAt(toks, i) ==
  /\ toks[i].k = "qid"
  /\ CaseIdShape(toks[i].id)
  /\ NextSolid(toks, i) <= Len(toks)
  /\ toks[NextSolid(toks, i)].k = "colon"

\* triple_q_pattern.search from token `from` on: the first triple quote that
\* has a later one of its own kind, and the nearest such closer.
TripleQSearch(toks, from) ==
  LET closers(i) == {j \in (i + 1)..Len(toks) :
                       toks[j].k = "tq" /\ toks[j].q = toks[i].q}
      openers == {i \in from..Len(toks) :
                    toks[i].k = "tq" /\ closers(i) # {}}
  IN  IF openers = {} THEN [found |-> FALSE, open |-> 0, close |-> 0]
      ELSE LET o == CHOOSE i \in openers : \A h \in openers : i <= h
               c == CHOOSE j \in closers(o) : \A h \in closers(o) : j <= h
           IN  [found |-> TRUE, open |-> o, close |-> c]

\* The group of a triple_q_pattern match: what lies between the quotes.
BlockOf(toks, m) == SubSeq(toks, m.open + 1, m.close - 1)

NoAuthor == [name |-> "", rest |-> <<>>]

Strippable(tok) == tok.k \in {"tq", "colon"}

RECURSIVE StripRight(_)
StripRight(toks) ==
  IF toks # <<>> /\ Strippable(toks[Len(toks)])
  THEN StripRight(SubSeq(toks, 1, Len(toks) - 1))
  ELSE toks

RECURSIVE StripLeft(_)
StripLeft(toks) ==
  IF toks # <<>> /\ Strippable(toks[1]) THEN StripLeft(Tail(toks)) ELSE toks

\* a.group(1).strip().strip(' :\t\n"\''): quotes, colons and blanks go from
\* both ends of the captured text; what stands between stays.
StripAuthor(name, rest) ==
  [name |-> name,
   rest |-> IF name = "" THEN StripLeft(StripRight(rest)) ELSE StripRight(rest)]

\* author_pattern.search(toks): the first author tag; (.+) captures to the end
\* of its line.
AuthorSearch(toks) ==
  LET tags == {i \in 1..Len(toks) : toks[i].k = "author"}
  IN  IF tags = {} THEN [found |-> FALSE, author |-> NoAuthor]
      ELSE LET a == CHOOSE i \in tags : \A h \in tags : i <= h
               ends == {j \in (a + 1)..Len(toks) : toks[j].k = "nl"}
               e == IF ends = {} THEN Len(toks) + 1
                    ELSE CHOOSE j \in ends : \A h \in ends : j <= h
           IN  [found |-> TRUE,
                author |-> StripAuthor(toks[a].name, SubSeq(toks, a + 1, e - 1))]

\* caseid in block
Contains(block, caseid) ==
  \E i \in 1..Len(block) :
     /\ IdText(block[i]) # NoId
     /\ IdText(block[i]).up = caseid.up
     /\ IdText(block[i]).fam = caseid.fam
     /\ IdText(block[i]).n >= caseid.n

\* -------------------------------------------------------------- resolvers

\* Mutant of TailSlice: the slice runs to the end of the text.
TailSliceUnbounded(toks, s) ==
  IF s > Len(toks) THEN <<>> ELSE SubSeq(toks, s, Len(toks))

\* text[start:start + 4000], start being the offset of token s: the tokens
\* that lie whole inside the slice.
TailSlice(toks, s) ==
  IF s > Len(toks) THEN <<>>
  ELSE IF Pos(toks, Len(toks) + 1) - Pos(toks, s) <= tail_chars + 1
       THEN SubSeq(toks, s, Len(toks))
       ELSE LET fits == {j \in s..Len(toks) :
                           Pos(toks, j + 1) - 1 - Pos(toks, s) <= tail_chars}
            IN  SubSeq(toks, s, s + Cardinality(fits) - 1)

\* Mutant of Bind: a case id that is bound keeps its author.
BindKeepsFirst(mappings, cid, author) ==
  [c \in DOMAIN mappings \cup {cid} |->
     IF c \in DOMAIN mappings THEN mappings[c] ELSE author]

\* mappings[cid] = author
Bind(mappings, cid, author) ==
  [c \in DOMAIN mappings \cup {cid} |-> IF c = cid THEN author ELSE mappings[c]]

\* One pass of the loop "for m in key_pattern.finditer(text)" at token i.
KeyStep(toks, i, mappings) ==
  LET s == NextSolid(toks, NextSolid(toks, i))
      tail == TailSlice(toks, s)
      tq == TripleQSearch(tail, 1)
      block == BlockOf(tail, tq)
      a == AuthorSearch(block)
  IN  IF ~tq.found THEN mappings
      ELSE IF block = <<>> THEN mappings
      ELSE IF a.found THEN Bind(mappings, toks[i].id, a.author)
      ELSE mappings

\* The loop "for m in key_pattern.finditer(text)", from the first key match
\* at or after token i on.
RECURSIVE ExtractFrom(_, _, _)
ExtractFrom(toks, i, mappings) ==
  LET keys == {j \in i..Len(toks) : KeyAt(toks, j)}
  IN  IF keys = {} THEN mappings
      ELSE LET j == CHOOSE h \in keys : \A g \in keys : h <= g
           IN  ExtractFrom(toks, NextSolid(toks, j) + 1, KeyStep(toks, j, mappings))

EmptyMap == [c \in {} |-> NoAuthor]

\* extract_dict_authors(text)
extract_dict_authors(ls) == ExtractFrom(Flat(ls), 1, EmptyMap)

\* Mutant of FindFrom: a block whose tag strips to nothing is passed over.
RECURSIVE FindFromSkipEmpty(_, _, _)
FindFromSkipEmpty(toks, from, caseid) ==
  LET m == TripleQSearch(toks, from)
      block == BlockOf(toks, m)
      a == AuthorSearch(block)
  IN  IF ~m.found THEN NoAuthor
      ELSE IF block # <<>> /\ Contains(block, caseid) /\ a.found
              /\ a.author # NoAuthor
           THEN a.author
      ELSE FindFromSkipEmpty(toks, m.close + 1, caseid)

\* Mutant of FindFrom: the search ends at the first block that spells the
\* case id, tagged or not.
RECURSIVE FindFromFirstContaining(_, _, _)
FindFromFirstContaining(toks, from, caseid) ==
  LET m == TripleQSearch(toks, from)
      block == BlockOf(toks, m)
      a == AuthorSearch(block)
  IN  IF ~m.found THEN NoAuthor
      ELSE IF block # <<>> /\ Contains(block, caseid)
           THEN (IF a.found THEN a.author ELSE NoAuthor)
      ELSE FindFromFirstContaining(toks, m.close + 1, caseid)

\* The loop "for m in triple_q_pattern.finditer(text)" from token `from` on.
RECURSIVE FindFrom(_, _, _)
FindFrom(toks, from, caseid) ==
  LET m == TripleQSearch(toks, from)
      block == BlockOf(toks, m)
      a == AuthorSearch(block)
  IN  IF ~m.found THEN NoAuthor
      ELSE IF block # <<>> /\ Contains(block, caseid) /\ a.found THEN a.author
      ELSE FindFrom(toks, m.close + 1, caseid)

\* find_author_in_triple_blocks(text, caseid)
find_author_in_triple_blocks(ls, caseid) == FindFrom(Flat(ls), 1, caseid)

\* The fallback loop of extract_author_from_nearby_block: the first line of
\* lines first..last with an author tag.
LineScan(ls, first, last) ==
  LET tagged == {i \in first..last : AuthorSearch(ls[i]).found}
  IN  IF tagged = {} THEN NoAuthor
      ELSE AuthorSearch(ls[CHOOSE i \in tagged : \A h \in tagged : i <= h]).author

\* Mutant of extract_author_from_nearby_block: the window is one line longer.
extract_author_one_line_further(ls, func_idx) ==
  LET last == Min(Len(ls), func_idx + max_lines)
      joined == FlatRange(ls, func_idx, last)
      m == TripleQSearch(joined, 1)
      block == BlockOf(joined, m)
      a == AuthorSearch(block)
  IN  IF m.found /\ block # <<>> /\ a.found THEN a.author
      ELSE LineScan(ls, func_idx, last)

\* extract_author_from_nearby_block(lines, func_idx); func_idx counts from 1.
extract_author_from_nearby_block(ls, func_idx) ==
  LET last == Min(Len(ls), func_idx + max_lines - 1)
      joined == FlatRange(ls, func_idx, last)
      m == TripleQSearch(joined, 1)
      block == BlockOf(joined, m)
      a == AuthorSearch(block)
  IN  IF m.found /\ block # <<>> /\ a.found THEN a.author
      ELSE LineScan(ls, func_idx, last)

\* ------------------------------------------------------------------ state

VARIABLES
  py_files,                \* the file list: [readable, content] per path
  fi,                      \* the file the outer loop is at (from 1)
  pc,                      \* "open", "scan" or "done"
  lines,                   \* text.splitlines() of the file being scanned
  file_caseid_author_map,  \* extract_dict_authors(text) of that file
  decorator_block,         \* the accumulated decorator lines
  idx,                     \* the line the inner loop is at (from 1)
  results,                 \* the records appended so far
  exported,                \* whether the spreadsheet was written
  log,                     \* history: per handled line of the file being
                           \* scanned, the branch taken, the accumulator and
                           \* the number of records before it
  origin                   \* history: per record of results, the file and
                           \* the line whose handling appended it

vars == <<py_files, fi, pc, lines, file_caseid_author_map, decorator_block,
          idx, results, exported, log, origin>>

\* ------------------------------------------------------- create_caseid_file

\* param_decorator_start.match(line_strip)
IsDecoratorStart(line) == line # <<>> /\ line[1].k = "pdec"

\* line_strip.startswith('def')
StartsWithDef(line) ==
  /\ line # <<>>
  /\ \/ line[1].k = "def" /\ line[1].kw = "def"
     \/ line[1].k = "word" /\ line[1].w = "default"

\* func_pattern.match(line_strip), which ignores letter case
FuncMatch(line) == line # <<>> /\ line[1].k = "def" /\ line[1].test

\* func_match.group(1)
FuncName(line) == [id |-> line[1].id]

\* " ".join(decorator_block)
RECURSIVE JoinBlock(_)
JoinBlock(block) ==
  IF block = <<>> THEN <<>> ELSE block[1] \o JoinBlock(Tail(block))

\* Mutant of ParamFindAll: any quoted case id of the text is taken, inside
\* pytest.param or not.
RECURSIVE ParamFindAllBare(_, _)
ParamFindAllBare(toks, i) ==
  IF i > Len(toks) THEN <<>>
  ELSE IF toks[i].k = "qid" /\ CaseIdShape(toks[i].id)
       THEN <<toks[i].id>> \o ParamFindAllBare(toks, i + 1)
       ELSE ParamFindAllBare(toks, i + 1)

\* param_caseid_pattern.findall(decorator_text)
RECURSIVE ParamFindAll(_, _)
ParamFindAll(toks, i) ==
  IF i >= Len(toks) THEN <<>>
  ELSE IF toks[i].k = "popen" /\ toks[i + 1].k = "qid"
          /\ CaseIdShape(toks[i + 1].id)
       THEN <<toks[i + 1].id>> \o ParamFindAll(toks, i + 2)
       ELSE ParamFindAll(toks, i + 1)

\* The author of one parametrized case id: the dict-key mapping, then the
\* triple-quoted blocks when the mapping gave none.
ParamAuthor(mappings, ls, caseid) ==
  LET author == IF caseid \in DOMAIN mappings THEN mappings[caseid]
                ELSE NoAuthor
  IN  IF author = NoAuthor THEN find_author_in_triple_blocks(ls, caseid)
      ELSE author

\* Mutant of ParamRecords: an id met before gets no second record.
RECURSIVE ParamRecordsDistinct(_, _, _, _)
ParamRecordsDistinct(caseids, func_name, mappings, ls) ==
  IF caseids = <<>> THEN <<>>
  ELSE LET n == Len(caseids)
           before == {caseids[j] : j \in 1..(n - 1)}
           rest == ParamRecordsDistinct(SubSeq(caseids, 1, n - 1), func_name,
                                        mappings, ls)
       IN  IF caseids[n] \in before THEN rest
           ELSE rest \o <<[CaseId |-> caseids[n],
                           AutomationScript |->
                             [func |-> func_name, case |-> caseids[n]],
                           Author |-> ParamAuthor(mappings, ls, caseids[n])]>>

\* The records of the loop "for caseid in param_caseids".
RECURSIVE ParamRecords(_, _, _, _)
ParamRecords(caseids, func_name, mappings, ls) ==
  IF caseids = <<>> THEN <<>>
  ELSE <<[CaseId |-> caseids[1],
          AutomationScript |-> [func |-> func_name, case |-> caseids[1]],
          Author |-> ParamAuthor(mappings, ls, caseids[1])]>>
       \o ParamRecords(Tail(caseids), func_name, mappings, ls)

\* Mutant of InlineRecord: the resolver starts at the line after the
\* definition.
InlineRecordNextLine(ls, i) ==
  [CaseId |-> InlineSearch(FuncName(ls[i]).id).id,
   AutomationScript |-> [func |-> FuncName(ls[i]), case |-> NoId],
   Author |-> extract_author_from_nearby_block(ls, i + 1)]

\* The record of an inline test.
InlineRecord(ls, i) ==
  [CaseId |-> InlineSearch(FuncName(ls[i]).id).id,
   AutomationScript |-> [func |-> FuncName(ls[i]), case |-> NoId],
   Author |-> extract_author_from_nearby_block(ls, i)]

\* The inner loop "for idx, raw_line in enumerate(lines)" from line i on, as
\* a function of the file: dec is decorator_block, recs the records the file
\* has given so far.
RECURSIVE ScanLines(_, _, _, _, _)
ScanLines(ls, i, mappings, dec, recs) ==
  IF i > Len(ls) THEN recs
  ELSE IF IsDecoratorStart(ls[i])
       THEN ScanLines(ls, i + 1, mappings, <<ls[i]>>, recs)
  ELSE IF dec # <<>> /\ ~StartsWithDef(ls[i]) /\ ls[i] # <<>>
       THEN ScanLines(ls, i + 1, mappings, Append(dec, ls[i]), recs)
  ELSE IF ~FuncMatch(ls[i])
       THEN ScanLines(ls, i + 1, mappings, dec, recs)
  ELSE IF InlineSearch(FuncName(ls[i]).id).found
       THEN ScanLines(ls, i + 1, mappings, <<>>,
                      Append(recs, InlineRecord(ls, i)))
  ELSE IF dec # <<>>
       THEN ScanLines(ls, i + 1, mappings, <<>>,
                      recs \o ParamRecords(ParamFindAll(JoinBlock(dec), 1),
                                           FuncName(ls[i]), mappings, ls))
  ELSE ScanLines(ls, i + 1, mappings, <<>>, recs)

\* The body of the loop "for file_path in py_files" for one file, as a
\* function of the file.
ScanFile(file) ==
  IF file.readable
  THEN ScanLines(file.content, 1, extract_dict_authors(file.content),
                 <<>>, <<>>)
  ELSE <<>>

\* create_caseid_file(py_files) as a function of the file list: the records
\* of a whole run.
RECURSIVE RunOver(_)
RunOver(files) ==
  IF files = <<>> THEN <<>> ELSE ScanFile(files[1]) \o RunOver(Tail(files))

Logged(branch) ==
  Append(log, [branch |-> branch, dec |-> decorator_block, n |-> Len(results)])

Scanning == pc = "scan" /\ idx <= Len(lines)

\* Mutant of OpenFile: the accumulator of the file before is kept.
OpenFileKeepsDecorator ==
  /\ pc = "open"
  /\ fi <= Len(py_files)
  /\ py_files[fi].readable
  /\ lines' = py_files[fi].content
  /\ file_caseid_author_map' = extract_dict_authors(py_files[fi].content)
  /\ idx' = 1
  /\ log' = <<>>
  /\ pc' = "scan"
  /\ UNCHANGED <<py_files, fi, decorator_block, results, origin, exported>>

\* with open(file_path, ...) as f: text = f.read(), and the per-file setup
OpenFile ==
  /\ pc = "open"
  /\ fi <= Len(py_files)
  /\ py_files[fi].readable
  /\ lines' = py_files[fi].content
  /\ file_caseid_author_map' = extract_dict_authors(py_files[fi].content)
  /\ decorator_block' = <<>>
  /\ idx' = 1
  /\ log' = <<>>
  /\ pc' = "scan"
  /\ UNCHANGED <<py_files, fi, results, origin, exported>>

\* Mutant of OpenFails: the run ends at the file that cannot be read.
OpenFailsBreak ==
  /\ pc = "open"
  /\ fi <= Len(py_files)
  /\ ~py_files[fi].readable
  /\ fi' = Len(py_files) + 1
  /\ UNCHANGED <<py_files, pc, lines, file_caseid_author_map, decorator_block,
                 idx, results, origin, exported, log>>

\* except Exception: print(...); continue
OpenFails ==
  /\ pc = "open"
  /\ fi <= Len(py_files)
  /\ ~py_files[fi].readable
  /\ fi' = fi + 1
  /\ UNCHANGED <<py_files, pc, lines, file_caseid_author_map, decorator_block,
                 idx, results, origin, exported, log>>

\* if param_decorator_start.match(line_strip): decorator_block = [line_strip]
DecoratorStart ==
  /\ Scanning
  /\ IsDecoratorStart(lines[idx])
  /\ decorator_block' = <<lines[idx]>>
  /\ idx' = idx + 1
  /\ log' = Logged("start")
  /\ UNCHANGED <<py_files, fi, pc, lines, file_caseid_author_map, results, origin,
                 exported>>

\* Mutant of DecoratorContinue: the continuation line is passed over, not
\* appended.
DecoratorContinueDropped ==
  /\ Scanning
  /\ ~IsDecoratorStart(lines[idx])
  /\ decorator_block # <<>>
  /\ ~StartsWithDef(lines[idx])
  /\ lines[idx] # <<>>
  /\ idx' = idx + 1
  /\ log' = Logged("continue")
  /\ UNCHANGED <<py_files, fi, pc, lines, file_caseid_author_map,
                 decorator_block, results, origin, exported>>

\* if decorator_block and not line_strip.startswith('def') and line_strip
DecoratorContinue ==
  /\ Scanning
  /\ ~IsDecoratorStart(lines[idx])
  /\ decorator_block # <<>>
  /\ ~StartsWithDef(lines[idx])
  /\ lines[idx] # <<>>
  /\ decorator_block' = Append(decorator_block, lines[idx])
  /\ idx' = idx + 1
  /\ log' = Logged("continue")
  /\ UNCHANGED <<py_files, fi, pc, lines, file_caseid_author_map, results, origin,
                 exported>>

\* The line reaches "func_match = func_pattern.match(line_strip)".
ReachesFuncMatch ==
  /\ Scanning
  /\ ~IsDecoratorStart(lines[idx])
  /\ ~(decorator_block # <<>> /\ ~StartsWithDef(lines[idx]) /\ lines[idx] # <<>>)

\* Mutant of InlineTest: the record is put in front of the others.
InlineTestFirst ==
  /\ ReachesFuncMatch
  /\ FuncMatch(lines[idx])
  /\ InlineSearch(FuncName(lines[idx]).id).found
  /\ results' = <<InlineRecord(lines, idx)>> \o results
  /\ origin' = <<[file |-> fi, line |-> idx]>> \o origin
  /\ decorator_block' = <<>>
  /\ idx' = idx + 1
  /\ log' = Logged("inline")
  /\ UNCHANGED <<py_files, fi, pc, lines, file_caseid_author_map, exported>>

\* if inline_caseid_match: ... results.append(...); decorator_block = []
InlineTest ==
  /\ ReachesFuncMatch
  /\ FuncMatch(lines[idx])
  /\ InlineSearch(FuncName(lines[idx]).id).found
  /\ results' = Append(results, InlineRecord(lines, idx))
  /\ origin' = Append(origin, [file |-> fi, line |-> idx])
  /\ decorator_block' = <<>>
  /\ idx' = idx + 1
  /\ log' = Logged("inline")
  /\ UNCHANGED <<py_files, fi, pc, lines, file_caseid_author_map, exported>>

\* Mutant of ParametrizedTest: the accumulator is left as it is.
ParametrizedTestKeeps ==
  /\ ReachesFuncMatch
  /\ FuncMatch(lines[idx])
  /\ ~InlineSearch(FuncName(lines[idx]).id).found
  /\ decorator_block # <<>>
  /\ results' = results \o ParamRecords(ParamFindAll(JoinBlock(decorator_block), 1),
                                        FuncName(lines[idx]),
                                        file_caseid_author_map, lines)
  /\ origin' = origin \o [k \in 1..Len(ParamFindAll(JoinBlock(decorator_block), 1))
                            |-> [file |-> fi, line |-> idx]]
  /\ idx' = idx + 1
  /\ log' = Logged("parametrized")
  /\ UNCHANGED <<py_files, fi, pc, lines, file_caseid_author_map,
                 decorator_block, exported>>

\* elif decorator_block: ... results.append(...) per id; decorator_block = []
ParametrizedTest ==
  /\ ReachesFuncMatch
  /\ FuncMatch(lines[idx])
  /\ ~InlineSearch(FuncName(lines[idx]).id).found
  /\ decorator_block # <<>>
  /\ results' = results \o ParamRecords(ParamFindAll(JoinBlock(decorator_block), 1),
                                        FuncName(lines[idx]),
                                        file_caseid_author_map, lines)
  /\ origin' = origin \o [k \in 1..Len(ParamFindAll(JoinBlock(decorator_block), 1))
                            |-> [file |-> fi, line |-> idx]]
  /\ decorator_block' = <<>>
  /\ idx' = idx + 1
  /\ log' = Logged("parametrized")
  /\ UNCHANGED <<py_files, fi, pc, lines, file_caseid_author_map, exported>>

\* A test function with neither: decorator_block = []
UntrackedTest ==
  /\ ReachesFuncMatch
  /\ FuncMatch(lines[idx])
  /\ ~InlineSearch(FuncName(lines[idx]).id).found
  /\ decorator_block = <<>>
  /\ decorator_block' = <<>>
  /\ idx' = idx + 1
  /\ log' = Logged("untracked")
  /\ UNCHANGED <<py_files, fi, pc, lines, file_caseid_author_map, results, origin,
                 exported>>

\* func_match is None: the loop goes on to the next line
OtherLine ==
  /\ ReachesFuncMatch
  /\ ~FuncMatch(lines[idx])
  /\ idx' = idx + 1
  /\ log' = Logged("other")
  /\ UNCHANGED <<py_files, fi, pc, lines, file_caseid_author_map,
                 decorator_block, results, origin, exported>>

\* The inner loop ends: the outer loop takes the next file.
EndFile ==
  /\ pc = "scan"
  /\ idx > Len(lines)
  /\ fi' = fi + 1
  /\ pc' = "open"
  /\ UNCHANGED <<py_files, lines, file_caseid_author_map, decorator_block,
                 idx, results, origin, exported, log>>

\* if results: df.to_excel(out_xlsx, index=False)
Export ==
  /\ pc = "open"
  /\ fi > Len(py_files)
  /\ exported' = (results # <<>>)
  /\ pc' = "done"
  /\ UNCHANGED <<py_files, fi, lines, file_caseid_author_map, decorator_block,
                 idx, results, origin, log>>

Next ==
  \/ OpenFile
  \/ OpenFails
  \/ DecoratorStart
  \/ DecoratorContinue
  \/ InlineTest
  \/ ParametrizedTest
  \/ UntrackedTest
  \/ OtherLine
  \/ EndFile
  \/ Export

\* ----------------------------------------------------------------- inputs

\* Case id spellings: c123456, C123456, c1234567, C1234567, c12345 (too
\* short), c12345678 (too long), c200001.
a6 == Id(FALSE, 1, 6)
A6 == Id(TRUE, 1, 6)
a7 == Id(FALSE, 1, 7)
A7 == Id(TRUE, 1, 7)
a5 == Id(FALSE, 1, 5)
a8 == Id(FALSE, 1, 8)
b6 == Id(FALSE, 2, 6)

\* A chunk is a run of lines that goes into a file as one piece.
Line(toks) == <<toks>>
Gap(n) == [i \in 1..n |-> <<>>]

RECURSIVE Concat(_)
Concat(chunks) ==
  IF chunks = <<>> THEN <<>> ELSE chunks[1] \o Concat(Tail(chunks))

\* Decorators and the functions they stand before.
CorpusDecorated ==
  { Line(<<PDEC>>),
    Line(<<PDEC, POPEN, QID(a6), POPEN, QID(b6), POPEN, QID(a6)>>),
    Line(<<POPEN, QID(b6)>>),
    Line(<<PDEC, QID(a6)>>),
    Line(<<FDEF(TRUE, NoId)>>),
    Line(<<FDEF(TRUE, a6)>>),
    Line(<<FDEF(FALSE, NoId)>>) }

\* Case ids of every shape in the three places they are looked for.
CorpusShapes ==
  { Line(<<QID(A6), COLON, TQ, AUTHOR("Jane"), TQ>>),
    Line(<<QID(a8), COLON, TQ, AUTHOR("Jane"), TQ, QID(a5), COLON, TQ,
           AUTHOR("Jane"), TQ>>),
    Line(<<PDEC, POPEN, QID(a6), POPEN, QID(a8), POPEN, QID(a5), POPEN,
           QID(A7)>>),
    Line(<<FDEF(TRUE, NoId)>>),
    Line(<<FDEF(TRUE, a8)>>),
    Line(<<FDEF(TRUE, a5)>>),
    Line(<<FDEF(TRUE, A6)>>) }

\* Dictionary tables and documentation blocks around a parametrized test.
CorpusAuthors ==
  { Line(<<QID(a6), COLON, TQ, AUTHOR("Jane"), TQ>>),
    Line(<<QID(a6), COLON, TQ, AUTHORQ(""), TQ>>),
    Line(<<TQ, TEXT(a6), AUTHOR("Bob"), TQ>>),
    Line(<<TQS, TEXT(a7), AUTHORQ(""), TQS>>),
    Line(<<TQ, TEXT(a6), TQ>>),
    Line(<<PDEC, POPEN, QID(a6), POPEN, QID(b6)>>),
    Line(<<FDEF(TRUE, NoId)>>) }

\* Inline tests and what follows them.
CorpusNearby ==
  { Line(<<>>),
    Line(<<FDEF(TRUE, a6)>>),
    Line(<<TQ>>),
    Line(<<AUTHOR("Bob")>>),
    Line(<<TQ, AUTHORQ("Jane"), TQ>>),
    Line(<<TQ, TEXT(a6), TQ>>) }

\* The lines of the files that hold one long run of blank lines.
WindowLines ==
  { Line(<<FDEF(TRUE, a6)>>),
    Line(<<TQ>>),
    Line(<<AUTHOR("Bob")>>),
    Line(<<TQ, AUTHORQ("Jane"), TQ>>) }

\* Runs of blank lines that put what follows a definition on the last line
\* of its window, or on the first line beyond it.
GapSizes == {max_lines - 2, max_lines - 1}

\* Lines that begin like a definition without being one, and definitions
\* spelled in capitals.
CorpusKeywords ==
  { Line(<<>>),
    Line(<<PDEC, POPEN, QID(a6)>>),
    Line(<<FDEF(TRUE, NoId)>>),
    Line(<<FDEFUP(TRUE, b6)>>),
    Line(<<FDEF(FALSE, NoId)>>),
    Line(<<WORD("default")>>),
    Line(<<WORD("x")>>) }

\* Paddings that put the end of the block on the next line on the last
\* character of a key's window, or one character beyond it.
PadFits == tail_chars - 35
PadCuts == tail_chars - 34

\* Dictionary tables: keys that come again, keys without a block of their
\* own, blocks without a tag, blocks with two tags, and a parametrized test
\* that looks the keys up.
CorpusTable ==
  { Line(<<QID(a6), COLON, TQ, AUTHOR("Jane"), TQ>>),
    Line(<<QID(a6), COLON, TQ, AUTHOR("Mary"), AUTHOR("Jane"), TQ>>),
    Line(<<QID(a6), COLON, TQ, TEXT(b6), TQ>>),
    Line(<<QID(b6), COLON, PAD(PadFits)>>),
    Line(<<QID(b6), COLON, PAD(PadCuts)>>),
    <<<<PDEC, POPEN, QID(a6), POPEN, QID(b6)>>, <<FDEF(TRUE, NoId)>>>> }

Corpora ==
  {CorpusDecorated, CorpusShapes, CorpusAuthors, CorpusNearby, CorpusKeywords,
   CorpusTable}

File(content) == [readable |-> TRUE, content |-> content]

\* A file that cannot be opened; its text would yield a record if it could.
Unreadable == [readable |-> FALSE, content |-> <<<<FDEF(TRUE, b6)>>>>]

\* The files of the generated lists of several files.
SmallFiles ==
  { File(<<>>),
    File(<<<<QID(a6), COLON, TQ, AUTHOR("Jane"), TQ>>,
           <<PDEC, POPEN, QID(a6)>>,
           <<FDEF(TRUE, NoId)>>>>),
    File(<<<<FDEF(TRUE, b6)>>, <<TQ, AUTHOR("Bob"), TQ>>>>),
    File(<<<<PDEC, POPEN, QID(b6)>>>>),
    File(<<<<FDEF(TRUE, NoId)>>>>),
    File(<<<<PDEC, POPEN, QID(a6)>>, <<>>, <<FDEF(TRUE, NoId)>>>>),
    File(<<<<FDEF(TRUE, b6)>>, <<TQ, AUTHOR("Bob"), TQ>>,
           <<PDEC, POPEN, QID(a6)>>, <<FDEF(TRUE, NoId)>>>>),
    Unreadable }

SeqsUpTo(S, n) == UNION {[1..m -> S] : m \in 0..n}

\* The file lists a run may be given: one file made of the chunks of one
\* corpus; one file of inline tests with one long run of blank lines in it;
\* a list of hand-written files, some of them unreadable.
Init ==
  /\ \/ \E C \in Corpora : \E chunks \in SeqsUpTo(C, MaxChunks) :
          py_files = <<File(Concat(chunks))>>
     \/ \E chunks \in SeqsUpTo(WindowLines, MaxChunks - 1) :
          \E p \in 0..Len(chunks) : \E g \in GapSizes :
             py_files = <<File(Concat(SubSeq(chunks, 1, p)) \o Gap(g)
                               \o Concat(SubSeq(chunks, p + 1, Len(chunks))))>>
     \/ py_files \in SeqsUpTo(SmallFiles, MaxFiles)
  /\ fi = 1
  /\ pc = "open"
  /\ lines = <<>>
  /\ file_caseid_author_map = EmptyMap
  /\ decorator_block = <<>>
  /\ idx = 1
  /\ results = <<>>
  /\ exported = FALSE
  /\ log = <<>>
  /\ origin = <<>>

Spec == Init /\ [][Next]_vars

\* ------------------------------------------------- vocabulary of the claims

\* A file has just been opened: its table is built and no line is handled.
Entered == pc = "scan" /\ idx = 1

\* The lines of the current file handled so far are 1..Len(log).
Handled == 1..Len(log)

\* The records appended while line i was handled.
RecordsOf(i) ==
  SubSeq(results, log[i].n + 1,
         IF i < Len(log) THEN log[i + 1].n ELSE Len(results))

\* A test-function definition as Python spells one: the keyword def, then a
\* name that begins with test_.
IsTestDef(line) ==
  line # <<>> /\ line[1].k = "def" /\ line[1].kw = "def" /\ line[1].test

\* The name spells a case id somewhere: c and at least six digits.
Embedded(line) == line[1].id # NoId /\ line[1].id.n >= 6

\* The case id a name spells: c and its first six or seven digits.
EmbeddedId(line) ==
  [line[1].id EXCEPT !.n = IF line[1].id.n > 7 THEN 7 ELSE line[1].id.n]

\* The members of a set of numbers in rising order.
Ascending(S) ==
  [k \in 1..Cardinality(S) |->
     CHOOSE i \in S : Cardinality({j \in S : j < i}) = k - 1]

\* The case ids a text passes as the first argument of pytest.param, in the
\* order of the text.
PassedIds(toks) ==
  LET sites == {i \in 1..(Len(toks) - 1) :
                  /\ toks[i] = POPEN
                  /\ toks[i + 1].k = "qid"
                  /\ toks[i + 1].id.n \in {6, 7}}
  IN  [k \in 1..Cardinality(sites) |-> toks[Ascending(sites)[k] + 1].id]

\* ------------------------------------------------------------------ claims

\* C1: a test-function definition with no case id in its name and a
\* parametrize decorator pending gets exactly one record per case id the
\* accumulated decorator text passes to pytest.param, in the order of the
\* text and with repeats kept, each with CaseId that id and Automation Script
\* functionName[caseId]; the function gets no other record.
C1_OneRecordPerParam ==
  \A i \in Handled :
     (IsTestDef(lines[i]) /\ ~Embedded(lines[i]) /\ log[i].dec # <<>>) =>
        LET ids == PassedIds(JoinBlock(log[i].dec))
            recs == RecordsOf(i)
        IN  /\ Len(recs) = Len(ids)
            /\ \A j \in 1..Len(recs) :
                  /\ recs[j].CaseId = ids[j]
                  /\ recs[j].AutomationScript =
                       [func |-> [id |-> lines[i][1].id], case |-> ids[j]]

\* C1 witness: a handled definition whose decorator passed an id, another id
\* and the first id again, with the three records in that order.
C1_Witness ==
  \E i \in Handled :
     /\ IsTestDef(lines[i]) /\ ~Embedded(lines[i])
     /\ Len(log[i].dec) >= 1
     /\ Len(RecordsOf(i)) = 3
     /\ RecordsOf(i)[1].CaseId = RecordsOf(i)[3].CaseId
     /\ RecordsOf(i)[1].CaseId # RecordsOf(i)[2].CaseId
     /\ RecordsOf(i)[2].AutomationScript.case = RecordsOf(i)[2].CaseId

\* The lines handled so far on which the parametrized branch ran.
ParamLines == {i \in Handled : log[i].branch = "parametrized"}

\* The index in results of the last record appended up to line i.
LastRecord(i) == IF i < Len(log) THEN log[i + 1].n ELSE Len(results)

\* The lines of the current file numbered by S, joined in rising order.
TextOfLines(S) ==
  JoinBlock([k \in 1..Cardinality(S) |-> lines[Ascending(S)[k]]])

\* The case ids of a sequence of records.
CaseIds(recs) == [k \in 1..Len(recs) |-> recs[k].CaseId]

\* The members of a sequence, each once, in the order of their first
\* appearance.
Distinct(seq) ==
  LET firsts == {i \in 1..Len(seq) : \A j \in 1..(i - 1) : seq[j] # seq[i]}
  IN  [k \in 1..Cardinality(firsts) |-> seq[Ascending(firsts)[k]]]

\* The records of a sequence that name a parametrized case.
Parametrized(recs) ==
  SelectSeq(recs, LAMBDA r : r.AutomationScript.case # NoId)

\* C2 as stated: whatever test function follows a pending parametrize
\* decorator block, the block yields one record per distinct case id of the
\* decorator, in the order the ids appear in it.
C2_OnePerDistinctLiteral ==
  \A e \in Handled :
     (log[e].branch \in {"inline", "parametrized"} /\ log[e].dec # <<>>) =>
        CaseIds(Parametrized(RecordsOf(e)))
          = Distinct(PassedIds(JoinBlock(log[e].dec)))

\* C2 (amended): a block that starts with a parametrize decorator line yields
\* records only if the first later line that starts another block or matches
\* a test function is a test-function definition with no case id in its name;
\* then it yields one record per case id occurrence passed to pytest.param in
\* the start line and the later lines before the definition that are neither
\* blank nor begin with def, in that order, repeats kept (a literal outside
\* pytest.param yields none).  Otherwise it yields no parametrized record.
C2_OnePerParamOccurrence ==
  \A s \in Handled :
     log[s].branch = "start" =>
        LET closers == {e \in Handled :
                          e > s /\ log[e].branch \in
                                     {"start", "inline", "parametrized"}}
            last == IF closers = {} THEN Len(log) ELSE Ascending(closers)[1]
            emitted == SubSeq(results, log[s].n + 1, LastRecord(last))
            kept == {j \in s..(last - 1) :
                       j = s \/ (lines[j] # <<>> /\ ~StartsWithDef(lines[j]))}
        IN  IF closers # {} /\ log[last].branch = "parametrized"
            THEN /\ CaseIds(emitted) = PassedIds(TextOfLines(kept))
                 /\ \A k \in 1..Len(emitted) :
                       emitted[k].AutomationScript.case = emitted[k].CaseId
            ELSE \A k \in 1..Len(emitted) :
                    emitted[k].AutomationScript.case = NoId

\* C2 witness: a block of several lines, its id passed on a continuation
\* line, closed by a definition that got the record.
C2_Witness ==
  \E s \in Handled : \E e \in ParamLines :
     /\ log[s].branch = "start"
     /\ e >= s + 2
     /\ \A j \in (s + 1)..(e - 1) : log[j].branch \in {"continue", "other"}
     /\ PassedIds(lines[s]) = <<>>
     /\ Len(RecordsOf(e)) >= 1

\* C3: every test-function definition line whose name spells a case id gets
\* exactly one record: CaseId the id of the name, Automation Script the bare
\* function name, Author what the nearby-block resolver returns from that
\* line; a decorator pending at the line changes nothing and its ids get no
\* record.
C3_InlineRecord ==
  \A i \in Handled :
     (IsTestDef(lines[i]) /\ Embedded(lines[i])) =>
        RecordsOf(i) =
          <<[CaseId |-> EmbeddedId(lines[i]),
             AutomationScript |-> [func |-> [id |-> lines[i][1].id],
                                   case |-> NoId],
             Author |-> extract_author_from_nearby_block(lines, i)]>>

\* C3 witness: an inline test handled while a decorator that passes case ids
\* was pending.
C3_Witness ==
  \E i \in Handled :
     /\ IsTestDef(lines[i]) /\ Embedded(lines[i])
     /\ log[i].dec # <<>>
     /\ Len(PassedIds(JoinBlock(log[i].dec))) >= 1
     /\ Len(RecordsOf(i)) = 1

\* C4 as stated: the Author of a parametrized record is the table's value
\* whenever the table has an entry for the record's case id.
C4_TableValueWins ==
  \A i \in ParamLines : \A k \in 1..Len(RecordsOf(i)) :
     RecordsOf(i)[k].CaseId \in DOMAIN file_caseid_author_map =>
        RecordsOf(i)[k].Author
          = file_caseid_author_map[RecordsOf(i)[k].CaseId]

\* The same id but for the case of its letter.
SameFolded(c, d) == c.fam = d.fam /\ c.n = d.n

\* C5 as stated: a dictionary key that spells a parametrized record's case
\* id, in whatever letter case, gives the record its author.
C5_CaseInsensitive ==
  \A i \in ParamLines : \A k \in 1..Len(RecordsOf(i)) :
     \A c \in DOMAIN file_caseid_author_map :
        (/\ SameFolded(c, RecordsOf(i)[k].CaseId)
         /\ file_caseid_author_map[c] # NoAuthor
         /\ \A d \in DOMAIN file_caseid_author_map :
               SameFolded(d, c) => d = c)
        => RecordsOf(i)[k].Author = file_caseid_author_map[c]

\* C6 as stated: in a dictionary key, a function name and a pytest.param
\* argument alike, c with six or seven digits is taken and c with five or
\* eight digits is not: it gives no table entry and no record.
C6_ShapeInThreePlaces ==
  /\ \A c \in DOMAIN file_caseid_author_map :
        \E j \in 1..Len(Flat(lines)) :
           Flat(lines)[j] = QID(c) /\ c.n \in {6, 7}
  /\ \A i \in Handled :
        (lines[i] # <<>> /\ lines[i][1].k = "def"
           /\ lines[i][1].id.n \in {5, 8})
        => \A k \in 1..Len(RecordsOf(i)) :
              RecordsOf(i)[k].AutomationScript.case # NoId
  /\ \A i \in ParamLines : \A k \in 1..Len(RecordsOf(i)) :
        \E j \in 1..Len(JoinBlock(log[i].dec)) :
           /\ JoinBlock(log[i].dec)[j] = QID(RecordsOf(i)[k].CaseId)
           /\ RecordsOf(i)[k].CaseId.n \in {6, 7}

\* The triple-quoted blocks of a text, in the order of the text.
RECURSIVE BlocksFrom(_, _)
BlocksFrom(toks, from) ==
  LET m == TripleQSearch(toks, from)
  IN  IF ~m.found THEN <<>>
      ELSE <<BlockOf(toks, m)>> \o BlocksFrom(toks, m.close + 1)

\* The block spells the case id and holds an author tag.
Qualifies(block, caseid) ==
  /\ Contains(block, caseid)
  /\ \E j \in 1..Len(block) : block[j].k = "author"

\* The blocks of the current file that qualify for a case id, by number.
Qualifying(caseid) ==
  LET blocks == BlocksFrom(Flat(lines), 1)
  IN  {k \in 1..Len(blocks) : Qualifies(blocks[k], caseid)}

\* C7 as stated: when the table has no entry for a parametrized case id and
\* some documentation block of the file holds the id's text and an author
\* tag, the record's Author is the author of such a block and is not empty.
C7_FallbackNonEmpty ==
  \A i \in ParamLines : \A k \in 1..Len(RecordsOf(i)) :
     LET r == RecordsOf(i)[k]
     IN  (r.CaseId \notin DOMAIN file_caseid_author_map
            /\ Qualifying(r.CaseId) # {})
         => /\ r.Author # NoAuthor
            /\ \E b \in Qualifying(r.CaseId) :
                  r.Author = AuthorSearch(BlocksFrom(Flat(lines), 1)[b]).author

\* C7 (amended): when the table has no entry for a parametrized case id and
\* some triple-quoted block of the file holds the id's text and an author
\* tag, the record's Author is the stripped tag text of the first such block
\* in file order; it is empty when that text strips to nothing.
C7_FallbackFirstBlock ==
  \A i \in ParamLines : \A k \in 1..Len(RecordsOf(i)) :
     LET r == RecordsOf(i)[k]
     IN  (r.CaseId \notin DOMAIN file_caseid_author_map
            /\ Qualifying(r.CaseId) # {})
         => r.Author =
              AuthorSearch(BlocksFrom(Flat(lines), 1)
                             [Ascending(Qualifying(r.CaseId))[1]]).author

\* C7 witness: a record whose id the table lacks, with two qualifying blocks
\* of different authors, that got a named author.
C7_Witness ==
  \E i \in ParamLines : \E k \in 1..Len(RecordsOf(i)) :
     LET r == RecordsOf(i)[k]
     IN  /\ r.CaseId \notin DOMAIN file_caseid_author_map
         /\ Cardinality(Qualifying(r.CaseId)) >= 2
         /\ \E b \in Qualifying(r.CaseId) :
               AuthorSearch(BlocksFrom(Flat(lines), 1)[b]).author # r.Author
         /\ r.Author # NoAuthor

\* The lines of the window of an inline test at line i.
Window(i) == i..Min(Len(lines), i + max_lines - 1)

\* C8: a missing author drops no record.  An inline test with no author tag
\* on the 60 lines from its definition on gets its record with an empty
\* Author, and the Author of an inline record is never taken from a line
\* beyond those 60; a parametrized case id that neither the table nor the
\* fallback resolves gets its record with an empty Author.
C8_MissingAuthorKeepsRecord ==
  /\ \A i \in Handled :
        (IsTestDef(lines[i]) /\ Embedded(lines[i])) =>
           /\ Len(RecordsOf(i)) = 1
           /\ (\A j \in Window(i) : \A t \in 1..Len(lines[j]) :
                  lines[j][t].k # "author")
              => RecordsOf(i)[1].Author = NoAuthor
           /\ (RecordsOf(i)[1].Author # NoAuthor)
              => \E j \in Window(i) : \E t \in 1..Len(lines[j]) :
                    /\ lines[j][t].k = "author"
                    /\ lines[j][t].name = RecordsOf(i)[1].Author.name
  /\ \A i \in ParamLines :
        /\ Len(RecordsOf(i)) = Len(PassedIds(JoinBlock(log[i].dec)))
        /\ \A k \in 1..Len(RecordsOf(i)) :
              (/\ RecordsOf(i)[k].CaseId \notin DOMAIN file_caseid_author_map
               /\ find_author_in_triple_blocks(lines, RecordsOf(i)[k].CaseId)
                    = NoAuthor)
              => RecordsOf(i)[k].Author = NoAuthor

\* C8 witness: an inline test whose only author tag stands on the first line
\* beyond its window, with its record and an empty Author.
C8_Witness ==
  \E i \in Handled :
     /\ IsTestDef(lines[i]) /\ Embedded(lines[i])
     /\ Len(lines) >= i + max_lines
     /\ lines[i + max_lines] = <<AUTHOR("Bob")>>
     /\ \A j \in Window(i) : \A t \in 1..Len(lines[j]) :
           lines[j][t].k # "author"
     /\ Len(RecordsOf(i)) = 1
     /\ RecordsOf(i)[1].Author = NoAuthor

\* C9: a test-function definition with no case id in its name gets no record
\* when no decorator is pending, and none when the pending decorator text
\* passes no case id to pytest.param; the line is handled like any other.
C9_NoRecord ==
  \A i \in Handled :
     (/\ IsTestDef(lines[i]) /\ ~Embedded(lines[i])
      /\ \/ log[i].dec = <<>>
         \/ PassedIds(JoinBlock(log[i].dec)) = <<>>)
     => /\ RecordsOf(i) = <<>>
        /\ log[i].branch \in {"untracked", "parametrized"}

\* C9 witness: a definition handled with a pending decorator that holds a
\* case id literal outside pytest.param, and no record for it.
C9_Witness ==
  \E i \in ParamLines :
     /\ IsTestDef(lines[i])
     /\ \E j \in 1..Len(JoinBlock(log[i].dec)) :
           JoinBlock(log[i].dec)[j].k = "qid"
     /\ PassedIds(JoinBlock(log[i].dec)) = <<>>
     /\ RecordsOf(i) = <<>>

\* C10: in every state every record has its three fields, a CaseId of c and
\* six or seven digits in either letter case, and an Author that is a string,
\* empty at the least.
C10_RecordShape ==
  \A k \in 1..Len(results) :
     /\ DOMAIN results[k] = {"CaseId", "AutomationScript", "Author"}
     /\ results[k].CaseId.fam \in {1, 2}
     /\ results[k].CaseId.n \in {6, 7}
     /\ results[k].CaseId.up \in BOOLEAN
     /\ DOMAIN results[k].Author = {"name", "rest"}
     /\ results[k].Author.name \in STRING

\* C10 witness: a record with an empty Author and a capital C beside a record
\* of seven digits.
C10_Witness ==
  /\ \E k \in 1..Len(results) :
        results[k].Author = NoAuthor /\ results[k].CaseId.up
  /\ \E k \in 1..Len(results) : results[k].CaseId.n = 7

\* The records appended for line l of file f, by their place in results.
RecordsAt(f, l) ==
  {k \in 1..Len(origin) : origin[k] = [file |-> f, line |-> l]}

\* C11: records are appended in encounter order.  In every state each record
\* bears the name of the function defined at the line that gave it; a record
\* of an earlier file stands before every record of a later file, and within
\* a file a record of an earlier line before every record of a later line;
\* a handled definition with a case id has its records whatever their Author
\* is; and no step removes or moves a record: a step leaves results as it is
\* or adds to its end.
C11_EncounterOrder ==
  /\ [](/\ Len(origin) = Len(results)
        /\ \A k \in 1..Len(results) :
              /\ origin[k].file \in 1..Len(py_files)
              /\ py_files[origin[k].file].readable
              /\ origin[k].line
                   \in 1..Len(py_files[origin[k].file].content)
              /\ results[k].AutomationScript.func
                   = FuncName(py_files[origin[k].file].content[origin[k].line])
        /\ \A a, b \in 1..Len(results) :
              a < b => \/ origin[a].file < origin[b].file
                       \/ /\ origin[a].file = origin[b].file
                          /\ origin[a].line <= origin[b].line
        /\ pc = "scan" => \A i \in Handled :
              /\ (IsTestDef(lines[i]) /\ Embedded(lines[i]))
                 => Cardinality(RecordsAt(fi, i)) = 1
              /\ (IsTestDef(lines[i]) /\ ~Embedded(lines[i]))
                 => Cardinality(RecordsAt(fi, i))
                      = Len(PassedIds(JoinBlock(log[i].dec))))
  /\ [][/\ Len(results') >= Len(results)
        /\ SubSeq(results', 1, Len(results)) = results]_vars

\* C11 witness: records of two files, the later file's from two of its lines,
\* the last of them with an empty Author.
C11_Witness ==
  \E a, b, c \in 1..Len(results) :
     /\ a < b /\ b < c
     /\ origin[a].file < origin[b].file
     /\ origin[b].file = origin[c].file
     /\ origin[b].line < origin[c].line
     /\ results[b].Author # NoAuthor
     /\ results[c].Author = NoAuthor

\* The records that file f of the list gave, in the order of results.
RecordsFrom(f) ==
  LET at == {k \in 1..Len(origin) : origin[k].file = f}
  IN  [j \in 1..Cardinality(at) |-> results[Ascending(at)[j]]]

\* The files of the list that can be read, in the order of the list.
Readable(files) == SelectSeq(files, LAMBDA f : f.readable)

\* C12: a file that cannot be read gives no record and does not end the
\* run: no record ever stems from it, and when the run is over every file of
\* the list has been taken and the records are exactly the records of a run
\* over the list without the files that cannot be read.
C12_UnreadableSkipped ==
  /\ \A k \in 1..Len(origin) : py_files[origin[k].file].readable
  /\ pc = "done"
     => /\ fi = Len(py_files) + 1
        /\ \A f \in 1..Len(py_files) :
              ~py_files[f].readable => RecordsFrom(f) = <<>>
        /\ (\E f \in 1..Len(py_files) : ~py_files[f].readable)
           => results = RunOver(Readable(py_files))

\* C12 witness: a finished run over a list whose first file could not be
\* read and whose second file gave a record.
C12_Witness ==
  /\ pc = "done"
  /\ Len(py_files) >= 2
  /\ ~py_files[1].readable
  /\ py_files[2].readable
  /\ RecordsFrom(2) # <<>>
  /\ results = ScanFile(py_files[2])

\* C13: the records of a file are a function of its text alone.  A file is
\* entered with an empty accumulator and the table of its own text, whatever
\* the file before left behind; when a file of a list of several has been
\* taken its records are those the file gives when scanned by itself; and
\* the records of a finished run are a function of the file list.
C13_PerFileFunction ==
  /\ Entered => decorator_block = <<>>
  /\ (Entered /\ fi > 1)
     => file_caseid_author_map = extract_dict_authors(py_files[fi].content)
  /\ (pc = "open" /\ fi > 1 /\ Len(py_files) > 1)
     => RecordsFrom(fi - 1) = ScanFile(py_files[fi - 1])
  /\ pc = "done" => results = RunOver(py_files)

\* C13 witness: a finished run of two files, the first ending with a
\* decorator that passes a case id and is still pending, the second beginning
\* with a test-function definition, which got no record.
C13_Witness ==
  /\ pc = "done"
  /\ Len(py_files) = 2
  /\ py_files[1].readable /\ py_files[2].readable
  /\ py_files[1].content # <<>> /\ py_files[2].content # <<>>
  /\ LET last == py_files[1].content[Len(py_files[1].content)]
     IN  IsDecoratorStart(last) /\ PassedIds(last) # <<>>
  /\ FuncMatch(py_files[2].content[1])
  /\ RecordsFrom(2) = <<>>

\* The accumulator as line i left it.
DecAfter(i) == IF i < Len(log) THEN log[i + 1].dec ELSE decorator_block

\* A function definition as Python spells one, of a test or not.
IsDef(line) == line # <<>> /\ line[1].k = "def" /\ line[1].kw = "def"

\* C14 as stated: once a function definition line, of a test function or
\* not, has been passed the accumulator is empty, and what a decorator before
\* that line passed gives no record to a later function.
C14_ResetAtAnyDef ==
  \A i \in Handled :
     IsDef(lines[i]) =>
        /\ DecAfter(i) = <<>>
        /\ \A e \in ParamLines : e > i => Len(log[e].dec) < e - i

\* C15: after a test-function definition line has been handled the
\* accumulator is empty, whether the line gave an inline record, parametrized
\* records or none; hence between two definitions that got parametrized
\* records a new decorator was started: one decorator gives records to at
\* most one test function.
C15_ResetAfterTestDef ==
  /\ \A i \in Handled :
        IsTestDef(lines[i]) =>
           /\ log[i].branch \in {"inline", "parametrized", "untracked"}
           /\ DecAfter(i) = <<>>
  /\ \A d, e \in ParamLines :
        d < e => /\ \E t \in (d + 1)..(e - 1) : log[t].branch = "start"
                 /\ \A t \in 1..Len(log[e].dec) :
                       \E j \in (d + 1)..(e - 1) : log[e].dec[t] = lines[j]

\* C15 witness: a definition that got parametrized records, and a later
\* test-function definition with no decorator of its own that got none.
C15_Witness ==
  \E d \in ParamLines : \E e \in Handled :
     /\ d < e
     /\ RecordsOf(d) # <<>>
     /\ IsTestDef(lines[e]) /\ ~Embedded(lines[e])
     /\ \A t \in d..e : log[t].branch # "start"
     /\ DecAfter(d) = <<>>
     /\ RecordsOf(e) = <<>>

\* C16 as stated: from a decorator's start line to the next function
\* definition every line that is not blank is appended, a further parametrize
\* line too, and a blank line changes nothing; at the definition the
\* accumulator holds, in order, every non-blank line since the start line.
C16_AccumulatesAll ==
  \A s \in Handled : \A e \in Handled :
     (/\ log[s].branch = "start"
      /\ log[s].dec = <<>>
      /\ s < e
      /\ IsDef(lines[e])
      /\ \A j \in (s + 1)..(e - 1) : ~IsDef(lines[j]))
     => LET kept == {j \in s..(e - 1) : lines[j] # <<>>}
        IN  log[e].dec = [k \in 1..Cardinality(kept) |-> lines[Ascending(kept)[k]]]

\* The case ids the fallback searcher is asked about.
FallbackIds == {a6, A6, a7, b6}

\* The blocks of the current file that spell a case id, by number.
Containing(caseid) ==
  LET blocks == BlocksFrom(Flat(lines), 1)
  IN  {k \in 1..Len(blocks) : Contains(blocks[k], caseid)}

\* The author tag of block number k of the current file, empty if the block
\* has none.
TagOfBlock(k) == AuthorSearch(BlocksFrom(Flat(lines), 1)[k]).author

\* The author the searcher owes a case id when it takes the first of the
\* blocks numbered by `among`: that block's tag, empty if it has none or if
\* there is no such block.
TagOfFirst(blocks, among) ==
  IF among = {} THEN NoAuthor
  ELSE AuthorSearch(blocks[Ascending(among)[1]]).author

\* C17 as stated: the fallback searcher returns the author tag of the first
\* block, in file order, that spells the case id, and the empty string if no
\* block spells it; blocks after that first one do not matter.
C17_FirstContainingBlock ==
  Entered =>
     LET blocks == BlocksFrom(Flat(lines), 1)
     IN  \A c \in FallbackIds :
            find_author_in_triple_blocks(lines, c)
              = TagOfFirst(blocks, {k \in 1..Len(blocks) :
                                      Contains(blocks[k], c)})

\* C17 (amended): the fallback searcher returns the author tag of the first
\* block, in file order, that both spells the case id and holds an author
\* tag, passing over blocks that spell the id without a tag; it returns the
\* empty string if no block does both; blocks after that first one do not
\* matter.
C17_FirstTaggedBlock ==
  Entered =>
     LET blocks == BlocksFrom(Flat(lines), 1)
     IN  \A c \in FallbackIds :
            find_author_in_triple_blocks(lines, c)
              = TagOfFirst(blocks, {k \in 1..Len(blocks) :
                                      Qualifies(blocks[k], c)})

\* C17 witness: a parametrized record whose case id the table lacks, whose
\* first block spelling the id has no tag, and whose Author is the tag of a
\* later block that spells the id.
C17_Witness ==
  \E i \in ParamLines : \E k \in 1..Len(RecordsOf(i)) :
     LET r == RecordsOf(i)[k]
     IN  /\ r.CaseId \notin DOMAIN file_caseid_author_map
         /\ Containing(r.CaseId) # {}
         /\ Ascending(Containing(r.CaseId))[1] \notin Qualifying(r.CaseId)
         /\ Qualifying(r.CaseId) # {}
         /\ r.Author = TagOfBlock(Ascending(Qualifying(r.CaseId))[1])
         /\ r.Author # NoAuthor

\* The text of the window of an inline test at line i.
WindowText(i) == FlatRange(lines, i, Min(Len(lines), i + max_lines - 1))

\* The author tags of the triple-quoted blocks of a text that hold one.
BlockTags(toks) ==
  {AuthorSearch(BlocksFrom(toks, 1)[k]).author :
     k \in {j \in 1..Len(BlocksFrom(toks, 1)) :
              AuthorSearch(BlocksFrom(toks, 1)[j]).found}}

\* The author tags on the lines of the window of an inline test at line i.
LineTags(i) ==
  {AuthorSearch(lines[j]).author :
     j \in {h \in Window(i) : AuthorSearch(lines[h]).found}}

\* C18 as stated: the Author of an inline record is the author of a
\* documentation block with an author tag whenever such a block lies within
\* the window; only if the window holds none is it a standalone author tag of
\* the window; it is empty if the window holds neither.
C18_BlockBeforeStandalone ==
  \A i \in Handled :
     (IsTestDef(lines[i]) /\ Embedded(lines[i])) =>
        LET author == RecordsOf(i)[1].Author
        IN  IF BlockTags(WindowText(i)) # {}
            THEN author \in BlockTags(WindowText(i))
            ELSE IF LineTags(i) # {} THEN author \in LineTags(i)
            ELSE author = NoAuthor

\* The dictionary keys of a text, by their place in it.
Keys(toks) == {i \in 1..Len(toks) : KeyAt(toks, i)}

\* The place in the text where the window of the key at i begins: behind the
\* key, its colon and the white space after it.
WindowStart(toks, i) == NextSolid(toks, NextSolid(toks, i))

\* Token j ends within the 4000 characters that begin at token ws.
InWindow(toks, ws, j) ==
  j >= ws /\ WidthRange(toks, ws, j) - 1 <= tail_chars

\* The triple quotes that open a block lying whole in the window of the key
\* at i.
OpenersInWindow(toks, i) ==
  LET ws == WindowStart(toks, i)
      quotes == {o \in ws..Len(toks) : toks[o].k = "tq"}
      inside == {c \in quotes : InWindow(toks, ws, c)}
  IN  {o \in inside : \E c \in inside : c > o /\ toks[c] = toks[o]}

\* The place where the first block in the window of the key at i opens,
\* 0 if the window holds no block.
FirstBlockAt(toks, i) ==
  LET openers == OpenersInWindow(toks, i)
  IN  IF openers = {} THEN 0
      ELSE CHOOSE o \in openers : \A h \in openers : o <= h

\* The content of the block that opens at token o.
BlockAt(toks, o) ==
  LET closers == {c \in (o + 1)..Len(toks) : toks[c] = toks[o]}
  IN  SubSeq(toks, o + 1, (CHOOSE c \in closers : \A h \in closers : c <= h) - 1)

\* The content of the first block in the window of the key at i.
FirstBlock(toks, i) == BlockAt(toks, FirstBlockAt(toks, i))

\* The key at i resolves to an author: the first block in its window holds
\* an author tag.
Resolves(toks, i) ==
  LET o == FirstBlockAt(toks, i)
  IN  o # 0 /\ AuthorSearch(BlockAt(toks, o)).found

\* The occurrences of case id c as a key that resolve to an author.
Resolving(toks, c) == {i \in Keys(toks) : toks[i].id = c /\ Resolves(toks, i)}

\* C19: the table of a file binds a case id exactly when one of its keys has,
\* as the first block in the 4000 characters behind it, a block with an
\* author tag, and then to the first tag of such a block; a key with no block
\* in its window, or whose first block has no tag, binds nothing; two keys
\* that resolve to the same block are bound to the same author.
C19_TableFromFirstBlock ==
  Entered =>
     LET toks == Flat(lines)
         keys == Keys(toks)
         good == {k \in keys : Resolves(toks, k)}
     IN  /\ DOMAIN file_caseid_author_map = {toks[i].id : i \in good}
         /\ \A c \in DOMAIN file_caseid_author_map :
               \E i \in good :
                  /\ toks[i].id = c
                  /\ file_caseid_author_map[c]
                       = AuthorSearch(FirstBlock(toks, i)).author
         /\ \A i, j \in good :
               (/\ FirstBlockAt(toks, i) = FirstBlockAt(toks, j)
                /\ \A h \in good : toks[h].id = toks[i].id => h = i
                /\ \A h \in good : toks[h].id = toks[j].id => h = j)
               => file_caseid_author_map[toks[i].id]
                    = file_caseid_author_map[toks[j].id]

\* C19 witness: two keys of one file, each followed by padding and then the
\* same kind of block.  The one block ends on the last character of its
\* key's window: that key is bound, and to the same author as the key that
\* stands right before the block.  The other block ends one character beyond
\* its key's window, with its opening quotes inside: that key does not
\* resolve.
C19_Witness ==
  /\ Entered
  /\ LET toks == Flat(lines)
     IN  /\ \E i, j \in Keys(toks) :
               /\ toks[i + 2] = PAD(PadFits)
               /\ Resolves(toks, i) /\ Resolves(toks, j)
               /\ i < j
               /\ FirstBlockAt(toks, i) = FirstBlockAt(toks, j)
               /\ toks[i].id # toks[j].id
               /\ file_caseid_author_map[toks[i].id]
                    = file_caseid_author_map[toks[j].id]
         /\ \E i \in Keys(toks) :
               /\ toks[i + 2] = PAD(PadCuts)
               /\ ~Resolves(toks, i)
               /\ \E o \in (i + 3)..Len(toks) :
                     /\ toks[o].k = "tq"
                     /\ InWindow(toks, WindowStart(toks, i), o)

\* C20: when a key comes more than once in a file the table holds, for its
\* case id, the author of the last occurrence that resolves to an author; an
\* occurrence that resolves to none leaves the binding as it was.
C20_LastResolvingWins ==
  Entered =>
     LET toks == Flat(lines)
     IN  \A c \in DOMAIN file_caseid_author_map :
            LET at == Resolving(toks, c)
            IN  /\ at # {}
                /\ file_caseid_author_map[c]
                     = AuthorSearch(FirstBlock(toks,
                                      Ascending(at)[Cardinality(at)])).author

\* C20 witness: a key that comes three times, resolving to one author, then
\* to another, then to none; the table holds the second.
C20_Witness ==
  /\ Entered
  /\ LET toks == Flat(lines)
     IN  \E i, j, k \in Keys(toks) :
            /\ i < j /\ j < k
            /\ toks[i].id = toks[j].id
            /\ toks[j].id = toks[k].id
            /\ Resolves(toks, i) /\ Resolves(toks, j) /\ ~Resolves(toks, k)
            /\ AuthorSearch(FirstBlock(toks, i)).author
                 # AuthorSearch(FirstBlock(toks, j)).author
            /\ file_caseid_author_map[toks[k].id]
                 = AuthorSearch(FirstBlock(toks, j)).author

====
